---- MODULE Spec2Model ----
(***************************************************************************)
(* Thunder Alley league: weighted qualifying, starting grid construction,  *)
(* race scoring, season standings, the interactive finish-order collector  *)
(* and the race workflow with its race files, modelled from                *)
(* src/thunder_alley_league/{qualifying,scoring,standings,race,io_utils,   *)
(* main}.py.                                                               *)
(*                                                                         *)
(* A pandas DataFrame is a sequence of records (row order is significant). *)
(* A Python dict is a sequence of its items in insertion order.            *)
(* Random draws (numpy rng.random, random.sample) are nondeterministic     *)
(* choices over every outcome the call can produce.                        *)
(***************************************************************************)
EXTENDS Integers, Sequences, FiniteSets, TLC

VARIABLES
    \* ---- qualifying / starting grid (qualifying.py)
    all_race_data,   \* season history rows read by qualifying_sequence
    qualifying_agg,  \* qualifying_sequence's working table (weights, keys, ranks)
    qualifiers,      \* qualifying_sequence's return value
    teams,           \* starting_grid's `teams` argument
    pole_position,   \* starting_grid's `pole_position` argument (dict items)
    cars_per_team,   \* starting_grid's local cars_per_team
    grid,            \* starting_grid's return value
    gpc,             \* "input" -> "qualified" -> "grid"
    \* ---- race scoring (scoring.py)
    score_grid,      \* build_race_results' `grid` argument
    results,         \* build_race_results' `results` argument (finish input)
    scored,          \* what build_race_results returned or raised
    spc,             \* "input" -> "scored"
    \* ---- team race results (standings.py, team_race_results)
    race_df,         \* team_race_results' argument
    team_results,    \* what team_race_results returned or raised
    tpc,             \* "input" -> "done"
    \* ---- season standings (standings.py, main.calculate_standings)
    season,          \* the season's scored rows (all_race_data of the standings)
    next_car,        \* the next unused car number of the season
    appends,         \* how many times the season has been extended
    drivers_tbl,     \* driver_standings' return value
    owners_tbl,      \* owner_standings' return value
    playoffs_tbl,    \* playoff_standings' return value
    stpc,            \* "input" -> "done"
    \* ---- finish-order collector (race.py, _collect_finishers_interactive)
    car_numbers,     \* grid["carNumber"] as a list
    available,       \* cars of the grid not chosen yet
    all_results,     \* the list being built and returned
    next_pos,        \* the finish position being asked for (`pos`)
    turns_for,       \* the car whose turns led are being asked for (0: none)
    last_input,      \* the line read by the latest input() call
    inputs,          \* how many lines have been read
    cpc,             \* "car" / "turns" prompt, "returned", "raised"
    \* ---- race workflow and storage (race.py, io_utils.py, main.py)
    stored,          \* the race_*.json files of data/raw, in filename order
    season_csv,      \* the rows of the season CSV
    run_data,        \* run_race_and_save's all_race_data
    run_grid,        \* run_race_and_save's grid
    run_exit,        \* how the latest process ended
    runs,            \* how many races have been started
    rpc              \* "menu" -> "collect" -> "rebuild" -> "menu"

gridVars == <<all_race_data, qualifying_agg, qualifiers, teams, pole_position,
              cars_per_team, grid, gpc>>

scoreVars == <<score_grid, results, scored, spc>>

teamVars == <<race_df, team_results, tpc>>

standVars == <<season, next_car, appends, drivers_tbl, owners_tbl, playoffs_tbl, stpc>>

collectVars == <<car_numbers, available, all_results, next_pos, turns_for, last_input,
                 inputs, cpc>>

raceVars == <<stored, season_csv, run_data, run_grid, run_exit, runs, rpc>>

vars == <<gridVars, scoreVars, teamVars, standVars, collectVars, raceVars>>

(***************************************************************************)
(* Generic helpers                                                         *)
(***************************************************************************)
Range(s) == {s[i] : i \in DOMAIN s}

Min(a, b) == IF a <= b THEN a ELSE b

RECURSIVE SumSeq(_)
SumSeq(s) == IF s = <<>> THEN 0 ELSE Head(s) + SumSeq(Tail(s))

\* A computed table held as a value (f itself): the comparison makes the
\* model checker build the sequence once instead of once per access.
Table(f) == IF f = <<>> THEN <<>> ELSE f

\* The column `f` of a table, as a sequence.
Col(table, f) == Table([i \in DOMAIN table |-> table[i][f]])

\* Lexicographic order on equally long tuples of integers.
LexLess(a, b) ==
    \E i \in DOMAIN a : a[i] < b[i] /\ \A j \in 1..(i - 1) : a[j] = b[j]

\* Stable ascending sort (mergesort / lexsort semantics) of the rows s by the
\* sort keys `keys` (keys[i] is the key tuple of s[i]; a descending column
\* is negated): rows with equal keys keep their source order.
SortStable(s, keys) ==
    LET n == Len(s)
        key == Table(keys)
        pos == Table([i \in 1..n |->
                  1 + Cardinality({j \in 1..n :
                        /\ j # i
                        /\ \/ LexLess(key[j], key[i])
                           \/ (key[j] = key[i] /\ j < i)})])
    IN  Table([k \in 1..n |-> s[CHOOSE i \in 1..n : pos[i] = k]])

\* Python's lexicographic order on the team names used here.
TeamNames == <<"A", "B", "C", "D", "E">>
TeamIdx(t) == CHOOSE i \in DOMAIN TeamNames : TeamNames[i] = t

\* The elements of a finite set of integers in ascending order.
SortedSeq(S) ==
    Table([k \in 1..Cardinality(S) |->
             CHOOSE i \in S : Cardinality({j \in S : j < i}) = k - 1])

\* groupby(..., sort=False): the row indices at which a group key first
\* appears, in source order.
FirstIdx(keys) ==
    LET key == Table(keys)
    IN  SortedSeq({i \in DOMAIN key : \A j \in 1..(i - 1) : key[j] # key[i]})

\* The subsequence of s at the (ascending) positions S.
Pick(s, S) == LET ix == SortedSeq(S) IN Table([k \in DOMAIN ix |-> s[ix[k]]])

(***************************************************************************)
(* qualifying.py : qualifying_sequence                                     *)
(***************************************************************************)
\* eps = 1e-6, kept as the denominator of the fraction 1/1000000.
EpsDen == 1000000

EntrantKey(r) == <<r.carNumber, r.driver, r.team>>

\* groupby([carNumber, driver, team], sort=False).agg(sum qualifyingPoints),
\* then sort_values([team asc, qualifyingScore desc], mergesort).
QualifyingAggKey(r) == <<TeamIdx(r.team), 0 - r.qualifyingScore>>

QualifyingGroups(data) ==
    LET first == FirstIdx(Table([i \in DOMAIN data |-> EntrantKey(data[i])]))
        agg == [k \in DOMAIN first |->
                  LET r == data[first[k]]
                  IN  [carNumber |-> r.carNumber, driver |-> r.driver, team |-> r.team,
                       qualifyingScore |->
                          SumSeq(Col(SelectSeq(data,
                                   LAMBDA x : EntrantKey(x) = EntrantKey(r)),
                                 "qualifyingPoints"))]]
    IN  SortStable(agg, [i \in DOMAIN agg |-> QualifyingAggKey(agg[i])])

\* transform("sum") / transform("count") over the rows of one team.
TeamPoints(agg, t) ==
    SumSeq(Col(SelectSeq(agg, LAMBDA x : x.team = t), "qualifyingScore"))
CountPerTeam(agg, t) == Len(SelectSeq(agg, LAMBDA x : x.team = t))

\* clip(lower=eps, upper=1.0) of the fraction <<num, den>> (den > 0).
Clip(w) ==
    IF w[1] * EpsDen < w[2] THEN <<1, EpsDen>>
    ELSE IF w[1] > w[2] THEN <<1, 1>>
    ELSE w

\* Mutant of Weight: the equal split is given to every zero-score car instead
\* of only to the cars of a team whose total is zero.
WeightZeroScoreSplit(score, teamPoints, count) ==
    Clip(IF score = 0 THEN <<1, count>> ELSE <<score, teamPoints>>)

\* np.where(teamPoints == 0, 1/count, score/teamPoints), then the clip.
\* Weights are exact fractions <<num, den>>.
Weight(score, teamPoints, count) ==
    Clip(IF teamPoints = 0 THEN <<1, count>> ELSE <<score, teamPoints>>)

\* Fractions are compared by cross-multiplication.
FracEq(a, b) == a[1] * b[2] = b[1] * a[2]

\* rank(method="dense", ascending=False) of row i's key within its team.
DenseRank(agg, keys, i) ==
    1 + Cardinality({keys[j] : j \in {j \in DOMAIN agg :
                        agg[j].team = agg[i].team /\ keys[j] > keys[i]}})

\* The working table after lines 32-62 (the weightedRandScore column itself is
\* not kept, only the rank read from it). keys[i] is row i's weightedRandScore,
\* u ** (1/weight) with u drawn from [0,1): for every weight in [eps, 1] the
\* map u -> u ** (1/weight) is onto [0,1), so every vector of keys is a
\* possible outcome whatever the weights are, and only the order of the keys
\* within a team is read afterwards.
QualifyingTable(data, keys) ==
    LET agg == QualifyingGroups(data)
    IN  [i \in DOMAIN agg |->
            [carNumber |-> agg[i].carNumber, driver |-> agg[i].driver,
             team |-> agg[i].team, qualifyingScore |-> agg[i].qualifyingScore,
             teamPoints |-> TeamPoints(agg, agg[i].team),
             weight |-> Weight(agg[i].qualifyingScore, TeamPoints(agg, agg[i].team),
                               CountPerTeam(agg, agg[i].team)),
             teamQualifyingRank |-> DenseRank(agg, keys, i)]]

\* Lines 67-74: keep rank <= 4, sort_values([team, teamQualifyingRank])
\* (a two-column sort is a lexsort, which is stable), keep four columns.
TopRank == 4

QualifiersKey(r) == <<TeamIdx(r.team), r.teamQualifyingRank>>

SelectQualifiers(table) ==
    LET top == SelectSeq(table, LAMBDA r : r.teamQualifyingRank <= TopRank)
        kept == SortStable(top, [i \in DOMAIN top |-> QualifiersKey(top[i])])
    IN  [i \in DOMAIN kept |->
            [carNumber |-> kept[i].carNumber, driver |-> kept[i].driver,
             team |-> kept[i].team, teamPosition |-> kept[i].teamQualifyingRank]]

\* qualifying_sequence: <<working table, returned qualifiers>>.
qualifying_sequence(data, keys) ==
    IF data = <<>> THEN [table |-> <<>>, qualifiers |-> <<>>]
    ELSE LET table == QualifyingTable(data, keys)
         IN  [table |-> table, qualifiers |-> SelectQualifiers(table)]

(***************************************************************************)
(* qualifying.py : starting_grid                                           *)
(***************************************************************************)
\* Lines 81-89. The first `if` is not chained to the second one, so the
\* value it assigns for two teams is overwritten by the trailing `else`.
CarsPerTeam(num_teams) ==
    LET first == IF num_teams = 2 THEN 6 ELSE 0
    IN  IF num_teams = 3 THEN 5
        ELSE IF num_teams = 4 THEN 4
        ELSE 3

\* load_drivers(): drivers.json as dict items, car number -> {name, team}.
Drivers ==
    << [car |-> 1, name |-> "d1", team |-> "A"],
       [car |-> 2, name |-> "d2", team |-> "A"],
       [car |-> 3, name |-> "d3", team |-> "A"],
       [car |-> 4, name |-> "d4", team |-> "B"],
       [car |-> 5, name |-> "d5", team |-> "B"],
       [car |-> 6, name |-> "d6", team |-> "B"],
       [car |-> 7, name |-> "d7", team |-> "C"],
       [car |-> 8, name |-> "d8", team |-> "C"],
       [car |-> 9, name |-> "d9", team |-> "C"],
       [car |-> 10, name |-> "d10", team |-> "C"],
       [car |-> 11, name |-> "d11", team |-> "D"] >>

\* sorted(pole_position.items(), key=rank) filtered by `team in teams`
\* (sorted() is stable: equal ranks keep dict order).
PoleTeams(tms, pole) ==
    Col(SelectSeq(SortStable(pole, [i \in DOMAIN pole |-> <<pole[i].rank>>]),
                  LAMBDA kv : kv.team \in Range(tms)),
        "team")

\* The roster entries of one team, as (car number, info) pairs in dict order.
TeamCars(drivers, team) ==
    LET mine == SelectSeq(drivers, LAMBDA d : d.team = team)
    IN  [i \in DOMAIN mine |-> [car |-> mine[i].car, name |-> mine[i].name]]

\* random.sample(population, k): every sequence of k distinct picks.
Samples(population, k) ==
    { [i \in 1..k |-> population[f[i]]] :
        f \in { g \in [1..k -> DOMAIN population] :
                  \A a, b \in 1..k : a # b => g[a] # g[b] } }

\* Lines 102-112: the possible selections of one team in a cold start.
ColdSelections(drivers, team, cpt) ==
    LET team_cars == TeamCars(drivers, team)
    IN  Samples(team_cars, Min(cpt, Len(team_cars)))

\* Lines 143-178: the possible selections of one team in a warm start.
\* sort_values("teamPosition") is a one-column sort with pandas' default
\* kind; for tables this small numpy's introsort is an insertion sort, which
\* keeps equal positions in source order.
WarmSelections(drivers, quals, team, cpt) ==
    LET mine == SelectSeq(quals, LAMBDA q : q.team = team)
        team_qualifiers ==
            SortStable(mine, [i \in DOMAIN mine |-> <<mine[i].teamPosition>>])
        team_cars == TeamCars(drivers, team)
        qualified_cars == Range(Col(team_qualifiers, "carNumber"))
        available_cars == SelectSeq(team_cars, LAMBDA c : c.car \notin qualified_cars)
        selections == [i \in DOMAIN team_qualifiers |->
                         [car |-> team_qualifiers[i].carNumber,
                          name |-> team_qualifiers[i].driver]]
        slots_needed == cpt - Len(selections)
    IN  IF slots_needed > 0 /\ available_cars # <<>>
        THEN { selections \o picks :
                 picks \in Samples(available_cars,
                                   Min(slots_needed, Len(available_cars))) }
        ELSE { selections }

\* Every team_selections the selection loop can end with: one selection per
\* pole team, in pole order.
RECURSIVE TeamSelections(_, _, _, _)
TeamSelections(drivers, quals, pole_teams, cpt) ==
    IF pole_teams = <<>> THEN { <<>> }
    ELSE LET here == IF quals = <<>>
                     THEN ColdSelections(drivers, Head(pole_teams), cpt)
                     ELSE WarmSelections(drivers, quals, Head(pole_teams), cpt)
         IN  { <<sel>> \o rest :
                 sel \in here,
                 rest \in TeamSelections(drivers, quals, Tail(pole_teams), cpt) }

\* Mutant of BuildRows: the position counter also advances when a team has
\* no car at the rank.
RECURSIVE BuildRowsGap(_, _, _, _, _, _)
BuildRowsGap(pole_teams, sels, cpt, rank, t, pos) ==
    IF rank >= cpt THEN <<>>
    ELSE IF t > Len(pole_teams) THEN BuildRowsGap(pole_teams, sels, cpt, rank + 1, 1, pos)
    ELSE IF rank < Len(sels[t])
    THEN << [carNumber |-> sels[t][rank + 1].car,
             driver |-> sels[t][rank + 1].name,
             team |-> pole_teams[t],
             startingPosition |-> pos] >>
         \o BuildRowsGap(pole_teams, sels, cpt, rank, t + 1, pos + 1)
    ELSE BuildRowsGap(pole_teams, sels, cpt, rank, t + 1, pos + 1)

\* Mutant of BuildRows: the loops are nested the other way round (all the
\* cars of a team before the next team).
RECURSIVE BuildRowsTeamMajor(_, _, _, _, _, _)
BuildRowsTeamMajor(pole_teams, sels, cpt, rank, t, pos) ==
    IF t > Len(pole_teams) THEN <<>>
    ELSE IF rank >= cpt THEN BuildRowsTeamMajor(pole_teams, sels, cpt, 0, t + 1, pos)
    ELSE IF rank < Len(sels[t])
    THEN << [carNumber |-> sels[t][rank + 1].car,
             driver |-> sels[t][rank + 1].name,
             team |-> pole_teams[t],
             startingPosition |-> pos] >>
         \o BuildRowsTeamMajor(pole_teams, sels, cpt, rank + 1, t, pos + 1)
    ELSE BuildRowsTeamMajor(pole_teams, sels, cpt, rank + 1, t, pos)

\* Lines 114-131 and 180-197: cycle through the teams for each rank.
RECURSIVE BuildRows(_, _, _, _, _, _)
BuildRows(pole_teams, sels, cpt, rank, t, pos) ==
    IF rank >= cpt THEN <<>>
    ELSE IF t > Len(pole_teams) THEN BuildRows(pole_teams, sels, cpt, rank + 1, 1, pos)
    ELSE IF rank < Len(sels[t])
    THEN << [carNumber |-> sels[t][rank + 1].car,
             driver |-> sels[t][rank + 1].name,
             team |-> pole_teams[t],
             startingPosition |-> pos] >>
         \o BuildRows(pole_teams, sels, cpt, rank, t + 1, pos + 1)
    ELSE BuildRows(pole_teams, sels, cpt, rank, t + 1, pos)

\* starting_grid: the set of grids the call can return.
starting_grid(tms, pole, quals) ==
    LET cpt == CarsPerTeam(Len(tms))
        pole_teams == PoleTeams(tms, pole)
    IN  { BuildRows(pole_teams, sels, cpt, 0, 1, 1) :
            sels \in TeamSelections(Drivers, quals, pole_teams, cpt) }

(***************************************************************************)
(* scoring.py                                                              *)
(***************************************************************************)
\* A finish (or startingPos) cell holds an integer or a string. The two are
\* kept apart: Fin(3) is the integer 3, FinStr("3") the string "3".
Fin(n) == [isStr |-> FALSE, n |-> n, s |-> ""]
FinStr(str) == [isStr |-> TRUE, n |-> 0, s |-> str]
DNQ == FinStr("DNQ")

\* str(n)
Str(n) == ToString(n)

\* dict.get(key, 0)
Get(d, key) == IF key \in DOMAIN d THEN d[key] ELSE 0

\* points_structure.json (load_points_structure): three tables keyed by the
\* finish position as a string, or "DNQ".
PointsStructure ==
    [points |-> [k \in {"1", "2"} |-> IF k = "1" THEN 40 ELSE 35],
     playoffPoints |-> [k \in {"1"} |-> 5],
     qualifyingPoints |-> [k \in {"1", "2", "DNQ"} |->
                             IF k = "1" THEN 3 ELSE IF k = "2" THEN 2 ELSE 1]]

\* grid.set_index("carNumber") and grid_idx.loc[car]: the grid row of a car;
\* .loc raises KeyError when the car is not in the index.
InGrid(g, car) == \E i \in DOMAIN g : g[i].carNumber = car
GridRow(g, car) == g[CHOOSE i \in DOMAIN g : g[i].carNumber = car]

\* calc_qualifying_points
calc_qualifying_points(finish, starting_pos, points_structure) ==
    LET qual_def == points_structure.qualifyingPoints
        points == Get(qual_def, Str(finish))
    IN  IF starting_pos = 1 THEN points + 4 ELSE points

\* list.sort() of a list of integers.
SortInts(l) == SortStable(l, [i \in DOMAIN l |-> <<l[i]>>])

\* list.index(x): 0-based index of the first occurrence.
IndexOf(l, x) == (CHOOSE i \in DOMAIN l : l[i] = x /\ \A j \in 1..(i - 1) : l[j] # x) - 1

\* _calculate_team_stats: the finish positions of each team's non-DNQ cars,
\* sorted, and the team with the most turns led (max() returns the first
\* maximal key in dict order, i.e. in order of first appearance; None when
\* nobody finished). KeyError when a non-DNQ entry's car is not in the grid.
_calculate_team_stats(res, g) ==
    LET fins == SelectSeq(res, LAMBDA r : r.finish # DNQ)
    IN  IF \E i \in DOMAIN fins : ~InGrid(g, fins[i].carNumber)
        THEN [error |-> "KeyError", team_finishes |-> <<>>, team_with_most_led |-> "None"]
        ELSE
        LET team_of == [i \in DOMAIN fins |-> GridRow(g, fins[i].carNumber).team]
            first == FirstIdx(team_of)
            order == [k \in DOMAIN first |-> team_of[first[k]]]
            of(t) == {i \in DOMAIN fins : team_of[i] = t}
            team_finishes == [t \in Range(order) |->
                                SortInts(Col(Col(Pick(fins, of(t)), "finish"), "n"))]
            team_turns_led == [t \in Range(order) |->
                                 SumSeq(Col(Pick(fins, of(t)), "turnsLed"))]
            best == CHOOSE k \in DOMAIN order :
                      /\ \A j \in DOMAIN order :
                           team_turns_led[order[j]] <= team_turns_led[order[k]]
                      /\ \A j \in 1..(k - 1) :
                           team_turns_led[order[j]] < team_turns_led[order[k]]
        IN  [error |-> "none",
             team_finishes |-> team_finishes,
             team_with_most_led |-> IF order = <<>> THEN "None" ELSE order[best]]

\* _build_dnq_result
_build_dnq_result(car, row, pts_def, po_def, qual_def) ==
    [finish |-> DNQ, carNumber |-> car, driver |-> row.driver, team |-> row.team,
     startingPos |-> DNQ, turnsLed |-> 0,
     points |-> Get(pts_def, "DNQ"), playoffPoints |-> Get(po_def, "DNQ"),
     relativeFinish |-> 0, qualifyingPoints |-> Get(qual_def, "DNQ")]

\* _build_finisher_result (seven parameters)
_build_finisher_result(result, row, team, pts_def, po_def, points_structure, team_finishes) ==
    LET finish_pos == result.finish.n
        starting_pos == row.startingPosition
        turns_led == result.turnsLed
        race_points == Get(pts_def, Str(finish_pos))
        playoff_points == Get(po_def, Str(finish_pos))
        qualifying_points ==
            calc_qualifying_points(finish_pos, starting_pos, points_structure)
        total_points == race_points + turns_led
        relative_finish == IndexOf(team_finishes[team], finish_pos) + 1
    IN  [finish |-> Fin(finish_pos), carNumber |-> result.carNumber,
         driver |-> row.driver, team |-> team, startingPos |-> Fin(starting_pos),
         turnsLed |-> turns_led, points |-> total_points,
         playoffPoints |-> playoff_points, relativeFinish |-> relative_finish,
         qualifyingPoints |-> qualifying_points]

\* The number of parameters _build_finisher_result declares.
FinisherParams == 7

\* A positional call of _build_finisher_result: Python raises TypeError
\* unless the number of arguments is the number of parameters.
CallBuildFinisherResult(args) ==
    IF Len(args) # FinisherParams
    THEN [error |-> "TypeError", row |-> <<>>]
    ELSE [error |-> "none",
          row |-> _build_finisher_result(args[1], args[2], args[3], args[4],
                                         args[5], args[6], args[7])]

\* Lines 124-144: the scoring loop from entry i on. The finisher branch
\* passes eight arguments (team_with_most_led is the eighth).
RECURSIVE ScoreLoop(_, _, _, _, _)
ScoreLoop(res, g, points_structure, stats, i) ==
    IF i > Len(res) THEN [error |-> "none", rows |-> <<>>]
    ELSE IF ~InGrid(g, res[i].carNumber) THEN [error |-> "KeyError", rows |-> <<>>]
    ELSE
    LET car == res[i].carNumber
        row == GridRow(g, car)
        team == row.team
        one == IF res[i].finish = DNQ
               THEN [error |-> "none",
                     row |-> _build_dnq_result(car, row, points_structure.points,
                                               points_structure.playoffPoints,
                                               points_structure.qualifyingPoints)]
               ELSE CallBuildFinisherResult(
                        <<res[i], row, team, points_structure.points,
                          points_structure.playoffPoints, points_structure,
                          stats.team_finishes, stats.team_with_most_led>>)
    IN  IF one.error # "none" THEN [error |-> one.error, rows |-> <<>>]
        ELSE LET rest == ScoreLoop(res, g, points_structure, stats, i + 1)
             IN  IF rest.error # "none" THEN rest
                 ELSE [error |-> "none", rows |-> <<one.row>> \o rest.rows]

\* build_race_results: the returned DataFrame rows, or the exception raised.
build_race_results(res, g, points_structure) ==
    LET stats == _calculate_team_stats(res, g)
    IN  IF stats.error # "none" THEN [error |-> stats.error, rows |-> <<>>]
        ELSE ScoreLoop(res, g, points_structure, stats, 1)

(***************************************************************************)
(* standings.py : team_race_results                                        *)
(***************************************************************************)
\* The distinct teams of a table in ascending name order (groupby sorts its
\* keys).
SortedTeams(rows) ==
    LET idx == SortedSeq({TeamIdx(rows[i].team) : i \in DOMAIN rows})
    IN  [k \in DOMAIN idx |-> TeamNames[idx[k]]]

\* mean().round(2) of a team's numeric finishes, in hundredths; 0 (fillna)
\* when the team has no finisher. With at most six cars per team no mean
\* lies exactly halfway between two hundredths.
AvgFinish(finishes) ==
    IF finishes = <<>> THEN 0
    ELSE (200 * SumSeq(finishes) + Len(finishes)) \div (2 * Len(finishes))

\* Series.idxmax(): the first position holding the maximum.
IdxMax(l) ==
    CHOOSE k \in DOMAIN l :
        /\ \A j \in DOMAIN l : l[j] <= l[k]
        /\ \A j \in 1..(k - 1) : l[j] < l[k]

\* team_race_results. A frame without rows is pd.DataFrame([]), which has no
\* columns either, so race_df["finish"] (line 137) raises KeyError. The
\* final sort_values("totalPoints", ascending=False) uses pandas' default
\* kind, which for tables this small keeps equal totals in source order.
team_race_results(df) ==
    IF df = <<>> THEN [error |-> "KeyError", rows |-> <<>>]
    ELSE
    LET tms == SortedTeams(df)
        of(t) == SelectSeq(df, LAMBDA r : r.team = t)
        agg == [k \in DOMAIN tms |->
                  [team |-> tms[k],
                   totalPoints |-> SumSeq(Col(of(tms[k]), "points")),
                   turnsLed |-> SumSeq(Col(of(tms[k]), "turnsLed")),
                   drivers |-> Len(of(tms[k]))]]
        team_with_most_led == agg[IdxMax(Col(agg, "turnsLed"))].team
        bonus == [k \in DOMAIN agg |->
                    [agg[k] EXCEPT !.totalPoints =
                        IF agg[k].team = team_with_most_led THEN @ + 1 ELSE @]]
        finishers(t) == SelectSeq(of(t), LAMBDA r : r.finish # DNQ)
        withAvg == [k \in DOMAIN bonus |->
                      [team |-> bonus[k].team, totalPoints |-> bonus[k].totalPoints,
                       turnsLed |-> bonus[k].turnsLed,
                       avgFinish |-> AvgFinish(Col(Col(finishers(bonus[k].team),
                                                       "finish"), "n")),
                       drivers |-> bonus[k].drivers]]
        sorted == SortStable(withAvg,
                             [k \in DOMAIN withAvg |-> <<0 - withAvg[k].totalPoints>>])
    IN  [error |-> "none",
         rows |-> [k \in DOMAIN sorted |->
                     [position |-> k, team |-> sorted[k].team,
                      totalPoints |-> sorted[k].totalPoints,
                      turnsLed |-> sorted[k].turnsLed,
                      avgFinish |-> sorted[k].avgFinish,
                      drivers |-> sorted[k].drivers]]]

(***************************************************************************)
(* standings.py : driver_standings, owner_standings, playoff_standings     *)
(***************************************************************************)
\* pd.to_numeric(cell, errors="coerce"): the number, or NaN for a string
\* that is not a number.
Numerals == [n \in 0..99 |-> ToString(n)]
ToNumeric(f) ==
    IF ~f.isStr THEN [nan |-> FALSE, n |-> f.n]
    ELSE IF f.s \in Range(Numerals)
    THEN [nan |-> FALSE, n |-> CHOOSE n \in DOMAIN Numerals : Numerals[n] = f.s]
    ELSE [nan |-> TRUE, n |-> 0]

\* The aggregation lambdas over a group's finish column. An integer cell is
\* never equal to the string "1" or "DNQ"; NaN <= k is False.
Starts(rows) == Len(SelectSeq(rows, LAMBDA r : r.finish # FinStr("DNQ")))
Wins(rows) == Len(SelectSeq(rows, LAMBDA r : r.finish = FinStr("1")))
TopK(rows, k) ==
    Len(SelectSeq(rows, LAMBDA r : ~ToNumeric(r.finish).nan /\ ToNumeric(r.finish).n <= k))

\* max() of a non-empty column.
MaxOf(l) == CHOOSE m \in Range(l) : \A x \in Range(l) : x <= m

\* Mutant of DriverSortKey: the first sort column ascending.
DriverSortKeyAscending(r) == <<r.points, 0 - r.wins, 0 - r.top5s, 0 - r.top10s, 0 - r.turnsLed>>

\* by=[points, wins, top5s, top10s, turnsLed], all descending.
DriverSortKey(r) ==
    <<0 - r.points, 0 - r.wins, 0 - r.top5s, 0 - r.top10s, 0 - r.turnsLed>>

\* driver_standings
driver_standings(data) ==
    LET first == FirstIdx(Table([i \in DOMAIN data |-> EntrantKey(data[i])]))
        agg == Table([k \in DOMAIN first |->
                  LET g == data[first[k]]
                      rows == SelectSeq(data, LAMBDA x : EntrantKey(x) = EntrantKey(g))
                  IN  [carNumber |-> g.carNumber, driver |-> g.driver, team |-> g.team,
                       points |-> SumSeq(Col(rows, "points")),
                       starts |-> Starts(rows),
                       wins |-> Wins(rows),
                       top5s |-> TopK(rows, 5),
                       top10s |-> TopK(rows, 10),
                       turnsLed |-> SumSeq(Col(rows, "turnsLed")),
                       playoffPoints |-> SumSeq(Col(rows, "playoffPoints"))]])
        top == MaxOf(Col(agg, "points"))
        sorted == SortStable(agg, [k \in DOMAIN agg |-> DriverSortKey(agg[k])])
    IN  [k \in DOMAIN sorted |->
            [position |-> k, carNumber |-> sorted[k].carNumber,
             driver |-> sorted[k].driver, team |-> sorted[k].team,
             points |-> sorted[k].points,
             behind |-> top - sorted[k].points,
             starts |-> sorted[k].starts, wins |-> sorted[k].wins,
             top5s |-> sorted[k].top5s, top10s |-> sorted[k].top10s,
             turnsLed |-> sorted[k].turnsLed,
             playoffPoints |-> sorted[k].playoffPoints]]

\* load_team_owners(): team -> owner name, None for a team without owner.
\* TeamOwnerKeys is list(team_owners.keys()); team C is in no entry and team
\* E has no car in drivers.json.
TeamOwnerKeys == <<"A", "B", "D", "E">>
TeamOwners == [t \in Range(TeamOwnerKeys) |-> IF t = "A" THEN "Ann" ELSE "None"]

\* by=[points, wins, top5s, top10s], all descending.
OwnerSortKey(r) == <<0 - r.points, 0 - r.wins, 0 - r.top5s, 0 - r.top10s>>

\* owner_standings
owner_standings(data, team_owners) ==
    LET first == FirstIdx(Col(data, "team"))
        agg == Table([k \in DOMAIN first |->
                  LET rows == SelectSeq(data, LAMBDA x : x.team = data[first[k]].team)
                  IN  [team |-> data[first[k]].team,
                       points |-> SumSeq(Col(rows, "points")),
                       wins |-> Wins(rows),
                       top5s |-> TopK(rows, 5),
                       top10s |-> TopK(rows, 10)]])
        top == MaxOf(Col(agg, "points"))
        sorted == SortStable(agg, [k \in DOMAIN agg |-> OwnerSortKey(agg[k])])
    IN  [k \in DOMAIN sorted |->
            [position |-> k,
             owner |-> IF sorted[k].team \in DOMAIN team_owners
                       THEN team_owners[sorted[k].team] ELSE "NaN",
             team |-> sorted[k].team,
             points |-> sorted[k].points,
             behind |-> top - sorted[k].points,
             wins |-> sorted[k].wins, top5s |-> sorted[k].top5s,
             top10s |-> sorted[k].top10s]]

\* The cutline of the playoff view and the number of rows it keeps.
CutlineRow == 12
FirstOutRow == 13
PlayoffRows == 24

\* f"{int(delta):+d}"
SignedStr(delta) ==
    IF delta >= 0 THEN "+" \o ToString(delta) ELSE "-" \o ToString(0 - delta)

\* Mutant of Margin: the rows above the cutline are measured against the
\* 12th row as well.
MarginAgainstTwelfth(position, playoffPoints, pts_12, pts_13) ==
    SignedStr(playoffPoints - pts_12)

\* _pm(row)
Margin(position, playoffPoints, pts_12, pts_13) ==
    IF position <= CutlineRow
    THEN SignedStr(playoffPoints - pts_13)
    ELSE SignedStr(playoffPoints - pts_12)

\* by=[playoffPoints, wins, top5s, top10s, turnsLed], all descending.
PlayoffSortKey(r) ==
    <<0 - r.playoffPoints, 0 - r.wins, 0 - r.top5s, 0 - r.top10s, 0 - r.turnsLed>>

\* playoff_standings
playoff_standings(data) ==
    LET first == FirstIdx(Table([i \in DOMAIN data |-> EntrantKey(data[i])]))
        agg == Table([k \in DOMAIN first |->
                  LET g == data[first[k]]
                      rows == SelectSeq(data, LAMBDA x : EntrantKey(x) = EntrantKey(g))
                  IN  [carNumber |-> g.carNumber, driver |-> g.driver, team |-> g.team,
                       playoffPoints |-> SumSeq(Col(rows, "playoffPoints")),
                       wins |-> Wins(rows),
                       top5s |-> TopK(rows, 5),
                       top10s |-> TopK(rows, 10),
                       turnsLed |-> SumSeq(Col(rows, "turnsLed"))]])
        sorted == SortStable(agg, [k \in DOMAIN agg |-> PlayoffSortKey(agg[k])])
        full == [k \in DOMAIN sorted |->
                   [position |-> k, carNumber |-> sorted[k].carNumber,
                    driver |-> sorted[k].driver, team |-> sorted[k].team,
                    playoffPoints |-> sorted[k].playoffPoints,
                    wins |-> sorted[k].wins, top5s |-> sorted[k].top5s,
                    top10s |-> sorted[k].top10s, turnsLed |-> sorted[k].turnsLed,
                    margin |->
                       IF Len(sorted) < FirstOutRow THEN ""
                       ELSE Margin(k, sorted[k].playoffPoints,
                                   sorted[CutlineRow].playoffPoints,
                                   sorted[FirstOutRow].playoffPoints)]]
    IN  SubSeq(full, 1, Min(PlayoffRows, Len(full)))

(***************************************************************************)
(* Qualifying and grid: inputs and actions                                 *)
(***************************************************************************)
MaxHist == 3

\* rng.random(n): n draws from [0, 1). Only the order of the keys inside a
\* team, ties included, is read afterwards, and n key values are enough to
\* give n entrants every such order.
DrawnKeys(n) == [1..n -> 0..(n - 1)]

\* Season-history rows (the columns qualifying_sequence reads). Car 1 also
\* appears under a second driver name and under a second team, and car 12 is
\* not in drivers.json: the roster may change between races.
HistoryRows ==
    << [carNumber |-> 1, driver |-> "d1", team |-> "A", qualifyingPoints |-> 100],
       [carNumber |-> 2, driver |-> "d2", team |-> "A", qualifyingPoints |-> 0],
       [carNumber |-> 3, driver |-> "d3", team |-> "A", qualifyingPoints |-> 0],
       [carNumber |-> 1, driver |-> "dX", team |-> "A", qualifyingPoints |-> 0],
       [carNumber |-> 1, driver |-> "d1", team |-> "B", qualifyingPoints |-> 0],
       [carNumber |-> 12, driver |-> "d12", team |-> "B", qualifyingPoints |-> 0] >>

Histories ==
    { Pick(HistoryRows, S) :
        S \in { T \in SUBSET (DOMAIN HistoryRows) : Cardinality(T) <= MaxHist } }

TeamLists ==
    { <<>>, <<"A">>, <<"A", "B">>, <<"A", "B", "C">>, <<"A", "B", "C", "D">>,
      <<"A", "B", "C", "D", "E">> }

\* pole_position.json as dict items. In the second one A and B share a rank
\* and D, E have no entry.
PolePositions ==
    { << [team |-> "A", rank |-> 2], [team |-> "B", rank |-> 1],
         [team |-> "C", rank |-> 3], [team |-> "D", rank |-> 4],
         [team |-> "E", rank |-> 5] >>,
      << [team |-> "A", rank |-> 1], [team |-> "B", rank |-> 1],
         [team |-> "C", rank |-> 2] >> }

\* The parts of the state a specification does not exercise stay at rest.
GridIdle ==
    /\ all_race_data = <<>> /\ qualifying_agg = <<>> /\ qualifiers = <<>>
    /\ teams = <<>> /\ pole_position = <<>> /\ cars_per_team = 0
    /\ grid = <<>> /\ gpc = "idle"
ScoreIdle ==
    /\ score_grid = <<>> /\ results = <<>>
    /\ scored = [error |-> "none", rows |-> <<>>] /\ spc = "idle"
TeamIdle ==
    /\ race_df = <<>> /\ team_results = [error |-> "none", rows |-> <<>>]
    /\ tpc = "idle"
StandIdle ==
    /\ season = <<>> /\ next_car = 1 /\ appends = 0
    /\ drivers_tbl = <<>> /\ owners_tbl = <<>> /\ playoffs_tbl = <<>>
    /\ stpc = "idle"

CollectIdle ==
    /\ car_numbers = <<>> /\ available = {} /\ all_results = <<>>
    /\ next_pos = 1 /\ turns_for = 0
    /\ last_input = [prompt |-> "none", kind |-> "none", n |-> 0]
    /\ inputs = 0 /\ cpc = "idle"
RaceIdle ==
    /\ stored = <<>> /\ season_csv = <<>> /\ run_data = <<>> /\ run_grid = <<>>
    /\ run_exit = "none" /\ runs = 0 /\ rpc = "idle"

InitGrid ==
    /\ all_race_data \in Histories
    /\ qualifying_agg = <<>>
    /\ qualifiers = <<>>
    /\ teams = <<>>
    /\ pole_position = <<>>
    /\ cars_per_team = 0
    /\ grid = <<>>
    /\ gpc = "input"
    /\ ScoreIdle /\ TeamIdle /\ StandIdle /\ CollectIdle /\ RaceIdle

\* race.py:160  qualifiers = qualifying_sequence(all_race_data)
Qualify ==
    /\ gpc = "input"
    /\ \E keys \in DrawnKeys(Len(QualifyingGroups(all_race_data))) :
         LET out == qualifying_sequence(all_race_data, keys)
         IN  /\ qualifying_agg' = out.table
             /\ qualifiers' = out.qualifiers
    /\ gpc' = "qualified"
    /\ UNCHANGED <<all_race_data, teams, pole_position, cars_per_team, grid>>
    /\ UNCHANGED <<scoreVars, teamVars, standVars, collectVars, raceVars>>

\* race.py:161  grid = starting_grid(teams_in_pole_order, pole_position, qualifiers)
StartingGrid ==
    /\ gpc = "qualified"
    /\ \E tms \in TeamLists, pole \in PolePositions :
         /\ teams' = tms
         /\ pole_position' = pole
         /\ cars_per_team' = CarsPerTeam(Len(tms))
         /\ grid' \in starting_grid(tms, pole, qualifiers)
    /\ gpc' = "grid"
    /\ UNCHANGED <<all_race_data, qualifying_agg, qualifiers>>
    /\ UNCHANGED <<scoreVars, teamVars, standVars, collectVars, raceVars>>

NextGrid == Qualify \/ StartingGrid

SpecGrid == InitGrid /\ [][NextGrid]_vars

(***************************************************************************)
(* Race scoring: inputs and actions                                        *)
(***************************************************************************)
MaxResults == 3
MaxFinish == 3

\* Starting grids handed to the scorer (outputs of starting_grid).
ScoreGrids ==
    { << [carNumber |-> 1, driver |-> "d1", team |-> "A", startingPosition |-> 1],
         [carNumber |-> 2, driver |-> "d2", team |-> "A", startingPosition |-> 2] >>,
      << [carNumber |-> 4, driver |-> "d4", team |-> "B", startingPosition |-> 1],
         [carNumber |-> 1, driver |-> "d1", team |-> "A", startingPosition |-> 2],
         [carNumber |-> 5, driver |-> "d5", team |-> "B", startingPosition |-> 3] >> }

\* A car number that is in no grid.
StrayCars == {99}

TurnsLedValues == {0, 10}

InitScore ==
    /\ score_grid \in ScoreGrids
    /\ results = <<>>
    /\ scored = [error |-> "none", rows |-> <<>>]
    /\ spc = "input"
    /\ GridIdle /\ TeamIdle /\ StandIdle /\ CollectIdle /\ RaceIdle

\* One more finish entry from the collector: a car not entered yet, a finish
\* position or DNQ, and the turns it led.
AddResult ==
    /\ spc = "input"
    /\ Len(results) < MaxResults
    /\ \E car \in (Range(Col(score_grid, "carNumber")) \cup StrayCars)
                    \ Range(Col(results, "carNumber")),
          fin \in {Fin(n) : n \in 1..MaxFinish} \cup {DNQ},
          tl \in TurnsLedValues :
         results' = Append(results, [carNumber |-> car, finish |-> fin, turnsLed |-> tl])
    /\ UNCHANGED <<score_grid, scored, spc, gridVars, teamVars, standVars, collectVars, raceVars>>

\* race.py:172  new_race_df = build_race_results(finishers, grid, points_structure)
Score ==
    /\ spc = "input"
    /\ scored' = build_race_results(results, score_grid, PointsStructure)
    /\ spc' = "scored"
    /\ UNCHANGED <<score_grid, results, gridVars, teamVars, standVars, collectVars, raceVars>>

NextScore == AddResult \/ Score

SpecScore == InitScore /\ [][NextScore]_vars

(***************************************************************************)
(* Team race results: inputs and actions                                   *)
(***************************************************************************)
MaxRaceRows == 3

\* What a scored row of one race can look like (finish, turnsLed, points):
\* points are the table's points for the finish plus the turns led.
RaceOutcomes ==
    { [finish |-> Fin(1), turnsLed |-> 10, points |-> 50],
      [finish |-> Fin(1), turnsLed |-> 0, points |-> 40],
      [finish |-> Fin(2), turnsLed |-> 10, points |-> 45],
      [finish |-> Fin(2), turnsLed |-> 0, points |-> 35],
      [finish |-> Fin(3), turnsLed |-> 0, points |-> 0],
      [finish |-> DNQ, turnsLed |-> 0, points |-> 0] }

RaceTeams == {"A", "B", "C"}

InitTeam ==
    /\ race_df = <<>>
    /\ team_results = [error |-> "none", rows |-> <<>>]
    /\ tpc = "input"
    /\ GridIdle /\ ScoreIdle /\ StandIdle /\ CollectIdle /\ RaceIdle

\* One more scored row of the race.
AddRaceRow ==
    /\ tpc = "input"
    /\ Len(race_df) < MaxRaceRows
    /\ \E t \in RaceTeams, o \in RaceOutcomes :
         race_df' = Append(race_df,
                           [team |-> t, driver |-> "d", finish |-> o.finish,
                            turnsLed |-> o.turnsLed, points |-> o.points])
    /\ UNCHANGED <<team_results, tpc, gridVars, scoreVars, standVars, collectVars, raceVars>>

\* race.py:174  team_results = team_race_results(new_race_df)
TeamRaceResults ==
    /\ tpc = "input"
    /\ team_results' = team_race_results(race_df)
    /\ tpc' = "done"
    /\ UNCHANGED <<race_df, gridVars, scoreVars, standVars, collectVars, raceVars>>

NextTeam == AddRaceRow \/ TeamRaceResults

SpecTeam == InitTeam /\ [][NextTeam]_vars

(***************************************************************************)
(* Season standings: inputs and actions                                    *)
(***************************************************************************)
MaxAppends == 3

\* What a scored row of the season can look like. The last one is a finish
\* cell holding the string "1".
SeasonOutcomes ==
    { [finish |-> Fin(1), turnsLed |-> 10, points |-> 50, playoffPoints |-> 5],
      [finish |-> Fin(7), turnsLed |-> 0, points |-> 10, playoffPoints |-> 1],
      [finish |-> DNQ, turnsLed |-> 0, points |-> 0, playoffPoints |-> 0],
      [finish |-> FinStr("1"), turnsLed |-> 0, points |-> 40, playoffPoints |-> 5] }

\* The first entrant's further races: a win or a DNQ.
RepeatOutcomes == {o \in SeasonOutcomes : o.finish \in {Fin(1), DNQ}}

\* New entrants join the season one at a time or a dozen at a time.
EntrantBlocks == {1, 12}

\* The team a car is registered to.
SeasonTeam(car) == TeamNames[((car - 1) % 3) + 1]

SeasonRow(car, o) ==
    [carNumber |-> car, driver |-> "d", team |-> SeasonTeam(car), finish |-> o.finish,
     turnsLed |-> o.turnsLed, points |-> o.points, playoffPoints |-> o.playoffPoints]

InitStand ==
    /\ season = <<>>
    /\ next_car = 1
    /\ appends = 0
    /\ drivers_tbl = <<>> /\ owners_tbl = <<>> /\ playoffs_tbl = <<>>
    /\ stpc = "input"
    /\ GridIdle /\ ScoreIdle /\ TeamIdle /\ CollectIdle /\ RaceIdle

\* Rows of k new entrants, all with the same outcome, are added to the season.
AddEntrants ==
    /\ stpc = "input"
    /\ appends < MaxAppends
    /\ \E k \in EntrantBlocks, o \in SeasonOutcomes :
         /\ season' = season \o [i \in 1..k |-> SeasonRow(next_car + i - 1, o)]
         /\ next_car' = next_car + k
    /\ appends' = appends + 1
    /\ UNCHANGED <<drivers_tbl, owners_tbl, playoffs_tbl, stpc>>
    /\ UNCHANGED <<gridVars, scoreVars, teamVars, collectVars, raceVars>>

\* A further row of the first entrant (a second race) is added to the season.
AddRepeatRow ==
    /\ stpc = "input"
    /\ appends < MaxAppends
    /\ next_car > 1
    /\ \E o \in RepeatOutcomes : season' = Append(season, SeasonRow(1, o))
    /\ appends' = appends + 1
    /\ UNCHANGED <<next_car, drivers_tbl, owners_tbl, playoffs_tbl, stpc>>
    /\ UNCHANGED <<gridVars, scoreVars, teamVars, collectVars, raceVars>>

\* main.py:10-21  calculate_standings on the season rows all_race_data that
\* rebuild_season_csv_from_races returns: the season CSV is overwritten
\* with them (io_utils.py:142) and the three tables are computed and saved.
calculate_standings(all_rows) ==
    /\ season_csv' = all_rows
    /\ drivers_tbl' = driver_standings(all_rows)
    /\ owners_tbl' = owner_standings(all_rows, TeamOwners)
    /\ playoffs_tbl' = playoff_standings(all_rows)

\* Menu choice 2 on the season built so far (with no race yet as well).
CalculateStandings ==
    /\ stpc = "input"
    /\ calculate_standings(season)
    /\ stpc' = "done"
    /\ UNCHANGED <<season, next_car, appends>>
    /\ UNCHANGED <<stored, run_data, run_grid, run_exit, runs, rpc>>
    /\ UNCHANGED <<gridVars, scoreVars, teamVars, collectVars>>

NextStand == AddEntrants \/ AddRepeatRow \/ CalculateStandings

SpecStand == InitStand /\ [][NextStand]_vars

(***************************************************************************)
(* race.py : _collect_finishers_interactive and _input_int                 *)
(***************************************************************************)
\* A line read by input(): text that int() parses (to n), text that int()
\* rejects with ValueError, or end of input (EOFError).
IntLine(n) == [kind |-> "int", n |-> n]
TextLine == [kind |-> "text", n |-> 0]
EofLine == [kind |-> "eof", n |-> 0]

\* Mutant of CarAccepted: any car number is taken.
CarAcceptedAny(car, avail) == TRUE

\* race.py:117  `if car not in available` (negated)
CarAccepted(car, avail) == car \in avail

\* _input_int(prompt, min_value=0): the line ends the retry loop when int()
\* parses it and the value is not below min_value; ValueError and EOFError
\* are both caught and the prompt is repeated.
MinTurnsLed == 0
TurnsAccepted(line) == line.kind = "int" /\ line.n >= MinTurnsLed

MaxInputs == 6

\* The carNumber column of the grid handed to the collector: empty, one car,
\* two cars, and a grid that lists car 1 twice.
CollectGrids == { <<>>, <<1>>, <<1, 2>>, <<2, 1>>, <<1, 1, 2>> }

CarLines == {IntLine(n) : n \in {1, 2, 99}} \cup {TextLine, EofLine}
TurnsLines == {IntLine(n) : n \in {-1, 0, 10}} \cup {TextLine, EofLine}

\* Lines 104-108: the state when the first prompt is shown (or at the return,
\* for a grid without rows).
InitCollect ==
    /\ car_numbers \in CollectGrids
    /\ available = Range(car_numbers)
    /\ all_results = <<>>
    /\ next_pos = 1
    /\ turns_for = 0
    /\ last_input = [prompt |-> "none", kind |-> "none", n |-> 0]
    /\ inputs = 0
    /\ cpc = IF Len(car_numbers) = 0 THEN "returned" ELSE "car"
    /\ GridIdle /\ ScoreIdle /\ TeamIdle /\ StandIdle /\ RaceIdle

\* Lines 112-135, the car prompt: EOFError is not caught here and leaves the
\* function; ValueError from int() and a car that is not available repeat
\* the prompt; an available car leads to the turns-led prompt.
CarInput ==
    /\ cpc = "car"
    /\ inputs < MaxInputs
    /\ \E line \in CarLines :
         /\ last_input' = [prompt |-> "car", kind |-> line.kind, n |-> line.n]
         /\ IF line.kind = "eof"
            THEN cpc' = "raised" /\ turns_for' = turns_for
            ELSE IF line.kind = "int" /\ CarAccepted(line.n, available)
            THEN cpc' = "turns" /\ turns_for' = line.n
            ELSE cpc' = "car" /\ turns_for' = turns_for
    /\ inputs' = inputs + 1
    /\ UNCHANGED <<car_numbers, available, all_results, next_pos>>
    /\ UNCHANGED <<gridVars, scoreVars, teamVars, standVars, raceVars>>

\* Lines 121-132, the turns-led prompt inside _input_int: a rejected line
\* repeats the prompt; an accepted one appends the entry, removes the car
\* from `available` and moves on to the next position, or returns.
TurnsInput ==
    /\ cpc = "turns"
    /\ inputs < MaxInputs
    /\ \E line \in TurnsLines :
         /\ last_input' = [prompt |-> "turns", kind |-> line.kind, n |-> line.n]
         /\ IF TurnsAccepted(line)
            THEN /\ all_results' = Append(all_results,
                                          [carNumber |-> turns_for, finish |-> next_pos,
                                           turnsLed |-> line.n])
                 /\ available' = available \ {turns_for}
                 /\ next_pos' = next_pos + 1
                 /\ turns_for' = 0
                 /\ cpc' = IF next_pos = Len(car_numbers) THEN "returned" ELSE "car"
            ELSE UNCHANGED <<all_results, available, next_pos, turns_for, cpc>>
    /\ inputs' = inputs + 1
    /\ UNCHANGED car_numbers
    /\ UNCHANGED <<gridVars, scoreVars, teamVars, standVars, raceVars>>

NextCollect == CarInput \/ TurnsInput

SpecCollect == InitCollect /\ [][NextCollect]_vars

(***************************************************************************)
(* race.py : run_race_and_save, io_utils.py : race files and season CSV,   *)
(* main.py : the "Start a race" branch of the menu                         *)
(***************************************************************************)
MaxRuns == 2

\* The dates a race can be saved under, in filename order.
Dates == <<"2026-01-01", "2026-01-02">>
DateIdx(d) == CHOOSE i \in DOMAIN Dates : Dates[i] = d

\* A scored row as a race file holds it.
StoredRow(car, driver, team, finish, start, qp) ==
    [finish |-> finish, carNumber |-> car, driver |-> driver, team |-> team,
     startingPos |-> start, turnsLed |-> 0, points |-> 0, playoffPoints |-> 0,
     relativeFinish |-> IF finish = DNQ THEN 0 ELSE 1, qualifyingPoints |-> qp]

\* A race file of an earlier race: car 1 of team A ahead of car 4 of team B;
\* in the races after the first, car 4 did not qualify.
EarlierRace(num) ==
    [date |-> Dates[1], raceNum |-> num, trackId |-> "t1",
     results |-> << StoredRow(1, "d1", "A", Fin(1), Fin(1), 7),
                    IF num = 1 THEN StoredRow(4, "d4", "B", Fin(2), Fin(2), 2)
                    ELSE StoredRow(4, "d4", "B", DNQ, DNQ, 1) >>]

\* data/raw before the first invocation: no race, one race, two races, and
\* races 1 and 3 (the file of race 2 was removed).
InitialStores ==
    { <<>>, <<EarlierRace(1)>>, <<EarlierRace(1), EarlierRace(2)>>,
      <<EarlierRace(1), EarlierRace(3)>> }

\* races_to_season_df: one row per car per race, the races in the order
\* load_all_races returns them.
RECURSIVE races_to_season_df(_)
races_to_season_df(races) ==
    IF races = <<>> THEN <<>>
    ELSE LET race == Head(races)
         IN  [i \in DOMAIN race.results |->
                [date |-> race.date, raceNum |-> race.raceNum, trackId |-> race.trackId,
                 finish |-> race.results[i].finish,
                 carNumber |-> race.results[i].carNumber,
                 driver |-> race.results[i].driver,
                 team |-> race.results[i].team,
                 startingPos |-> race.results[i].startingPos,
                 turnsLed |-> race.results[i].turnsLed,
                 points |-> race.results[i].points,
                 playoffPoints |-> race.results[i].playoffPoints,
                 relativeFinish |-> race.results[i].relativeFinish,
                 qualifyingPoints |-> race.results[i].qualifyingPoints]]
             \o races_to_season_df(Tail(races))

\* The file name race_{date}_r{raceNum}.json as a sort key (race numbers
\* stay below 10 here, so their order as text is their order as numbers).
FileKey(race) == <<DateIdx(race.date), race.raceNum>>

\* save_race: writes the file, replacing a file of the same name; the files
\* are kept in the order sorted(glob("race_*.json")) lists them.
save_race(files, race_obj) ==
    LET kept == SelectSeq(files, LAMBDA f : FileKey(f) # FileKey(race_obj))
        all == Append(kept, race_obj)
    IN  SortStable(all, [i \in DOMAIN all |-> FileKey(all[i])])

\* to_csv followed by read_csv: a column in which every cell is a number is
\* read back as numbers; once one cell is text (DNQ) every cell of the
\* column is read back as text.
CsvCell(column, cell) ==
    IF (\E i \in DOMAIN column : column[i].isStr) /\ ~cell.isStr
    THEN FinStr(Str(cell.n))
    ELSE cell

\* load_season_df: the season CSV read back (no rows when the file is
\* missing or holds only the header).
load_season_df(csv) ==
    [i \in DOMAIN csv |->
        [csv[i] EXCEPT !.finish = CsvCell(Col(csv, "finish"), @),
                       !.startingPos = CsvCell(Col(csv, "startingPos"), @)]]

\* _select_num_players and _select_teams: between 2 and 7 distinct teams of
\* the list (only the set of teams is read afterwards).
MinPlayers == 2
MaxPlayers == 7
SelectedTeams ==
    {S \in SUBSET Range(TeamOwnerKeys) :
        Cardinality(S) >= MinPlayers /\ Cardinality(S) <= MaxPlayers}

\* race.py:156-157  teams_in_pole_order
TeamsInPoleOrder(selected, pole) ==
    Col(SelectSeq(SortStable(pole, [i \in DOMAIN pole |-> <<pole[i].rank>>]),
                  LAMBDA kv : kv.team \in selected),
        "team")

\* The first-place finisher led the race or nobody did, and the cars cross
\* the line in grid order or in reverse grid order.
Reverse(l) == [i \in DOMAIN l |-> l[Len(l) + 1 - i]]
FinishOrders(cars) == {cars, Reverse(cars)}

\* What _collect_finishers_interactive can return for a grid: every car of
\* the grid once, with finish 1..N in list order. For a grid that lists a
\* car twice the collector never returns.
CollectorReturns(g) ==
    LET cars == Col(g, "carNumber")
    IN  IF Cardinality(Range(cars)) # Len(cars) THEN {}
        ELSE { [i \in DOMAIN order |->
                  [carNumber |-> order[i], finish |-> Fin(i),
                   turnsLed |-> IF i = 1 THEN tl ELSE 0]] :
               order \in FinishOrders(cars), tl \in TurnsLedValues }

\* race.py:179-181  next_race_num
NextRaceNum(data) ==
    IF data = <<>> THEN 1 ELSE MaxOf(Col(data, "raceNum")) + 1

InitRace ==
    /\ stored \in InitialStores
    /\ season_csv = races_to_season_df(stored)
    /\ run_data = <<>>
    /\ run_grid = <<>>
    /\ run_exit = "none"
    /\ runs = 0
    /\ rpc = "menu"
    /\ GridIdle /\ ScoreIdle /\ TeamIdle /\ StandIdle /\ CollectIdle

\* race.py:142-168: load the season, select the teams, qualify, build the
\* grid; with an empty grid the function returns ("No starters").
StartRace ==
    /\ rpc = "menu"
    /\ runs < MaxRuns
    /\ LET data == load_season_df(season_csv)
       IN  /\ run_data' = data
           /\ \E selected \in SelectedTeams, pole \in PolePositions,
                 keys \in DrawnKeys(Len(QualifyingGroups(data))) :
                LET quals == qualifying_sequence(data, keys).qualifiers
                IN  run_grid' \in starting_grid(TeamsInPoleOrder(selected, pole),
                                                pole, quals)
    /\ rpc' = IF run_grid' = <<>> THEN "rebuild" ELSE "collect"
    /\ run_exit' = IF run_grid' = <<>> THEN "no starters" ELSE "none"
    /\ runs' = runs + 1
    /\ UNCHANGED <<stored, season_csv>>
    /\ UNCHANGED <<gridVars, scoreVars, teamVars, standVars, collectVars>>

\* race.py:171-193: the collector returns, the race is scored, the team
\* results are computed and the race file is saved. An exception ends the
\* process before anything is saved (and before main rebuilds the season).
FinishRace ==
    /\ rpc = "collect"
    /\ \E finishers \in CollectorReturns(run_grid), date \in Range(Dates) :
         LET new_race_df == build_race_results(finishers, run_grid, PointsStructure)
             per_team == team_race_results(new_race_df.rows)
             race_obj == [date |-> date, raceNum |-> NextRaceNum(run_data),
                          trackId |-> "t1", results |-> new_race_df.rows]
         IN  IF new_race_df.error # "none"
             THEN /\ run_exit' = new_race_df.error
                  /\ rpc' = "menu"
                  /\ run_data' = <<>> /\ run_grid' = <<>>
                  /\ UNCHANGED stored
             ELSE IF per_team.error # "none"
             THEN /\ run_exit' = per_team.error
                  /\ rpc' = "menu"
                  /\ run_data' = <<>> /\ run_grid' = <<>>
                  /\ UNCHANGED stored
             ELSE /\ run_exit' = "saved"
                  /\ rpc' = "rebuild"
                  /\ stored' = save_race(stored, race_obj)
                  /\ UNCHANGED <<run_data, run_grid>>
    /\ UNCHANGED <<season_csv, runs>>
    /\ UNCHANGED <<gridVars, scoreVars, teamVars, standVars, collectVars>>

\* main.py:34-40: after run_race_and_save has returned, the season CSV is
\* rebuilt from the race files, calculate_standings rebuilds it once more
\* and writes the standings, and the process exits.
RebuildSeason ==
    /\ rpc = "rebuild"
    /\ season' = races_to_season_df(stored)
    /\ calculate_standings(races_to_season_df(stored))
    /\ rpc' = "menu"
    /\ run_data' = <<>> /\ run_grid' = <<>>
    /\ UNCHANGED <<stored, run_exit, runs>>
    /\ UNCHANGED <<next_car, appends, stpc>>
    /\ UNCHANGED <<gridVars, scoreVars, teamVars, collectVars>>

\* main.py:41-44: menu choice 2, calculate_standings alone.
RecalculateStandings ==
    /\ rpc = "menu"
    /\ season' = races_to_season_df(stored)
    /\ calculate_standings(races_to_season_df(stored))
    /\ run_exit' = "standings"
    /\ UNCHANGED <<stored, run_data, run_grid, runs, rpc>>
    /\ UNCHANGED <<next_car, appends, stpc>>
    /\ UNCHANGED <<gridVars, scoreVars, teamVars, collectVars>>

NextRace == StartRace \/ FinishRace \/ RebuildSeason \/ RecalculateStandings

SpecRace == InitRace /\ [][NextRace]_vars

(***************************************************************************)
(* Claims about the grid and the qualifying weights (SpecGrid)             *)
(***************************************************************************)
GridCount(g, t) == Cardinality({i \in DOMAIN g : g[i].team = t})
RosterSize(t) == Cardinality({i \in DOMAIN Drivers : Drivers[i].team = t})

\* C1: in every non-empty grid returned by starting_grid (cold or warm
\* start), the startingPosition values in row order are exactly 1, 2, ..., N.
C1_StartingPositionsDense ==
    (gpc = "grid" /\ grid # <<>>) =>
        \A i \in DOMAIN grid : grid[i].startingPosition = i

\* C1 witness: a warm-start grid in which a pole team has no car at some
\* rank that another team still fills.
C1_Witness ==
    /\ gpc = "grid" /\ qualifiers # <<>> /\ Len(grid) >= 4
    /\ \E a, b \in Range(Col(grid, "team")) : GridCount(grid, a) < GridCount(grid, b)

\* C2: cars-per-team is 6 for two teams, 5 for three, 4 for four and 3 for
\* any other team count.
C2_CarsPerTeamTable ==
    gpc = "grid" =>
        cars_per_team = (CASE Len(teams) = 2 -> 6
                           [] Len(teams) = 3 -> 5
                           [] Len(teams) = 4 -> 4
                           [] OTHER -> 3)

\* The general weight rule of C5, recomputed from the score column alone:
\* score / team total, or 1 / team size when the team total is 0, clamped
\* to [1e-6, 1].
C5_GeneralRule ==
    \A i \in DOMAIN qualifying_agg :
        LET r == qualifying_agg[i]
            mates == {j \in DOMAIN qualifying_agg : qualifying_agg[j].team = r.team}
            total == SumSeq(Col(Pick(qualifying_agg, mates), "qualifyingScore"))
            w == r.weight
        IN  /\ w[1] * EpsDen >= w[2] /\ w[1] <= w[2]
            /\ IF total = 0 THEN FracEq(w, <<1, Cardinality(mates)>>)
               ELSE IF r.qualifyingScore * EpsDen < total THEN FracEq(w, <<1, EpsDen>>)
               ELSE FracEq(w, <<r.qualifyingScore, total>>)

\* The rows of a team of three entrants whose scores are 100, 0, 0 and whose
\* own score is 0.
C5_ZeroOfHundredTeam ==
    {i \in DOMAIN qualifying_agg :
        LET mates == {j \in DOMAIN qualifying_agg :
                        qualifying_agg[j].team = qualifying_agg[i].team}
        IN  /\ Cardinality(mates) = 3
            /\ qualifying_agg[i].qualifyingScore = 0
            /\ \E j \in mates :
                 /\ qualifying_agg[j].qualifyingScore = 100
                 /\ \A k \in mates \ {j} : qualifying_agg[k].qualifyingScore = 0}

\* C5 (as amended): the weight is score / team total, or 1 / team size when
\* the team total is 0, clamped to [1e-6, 1]; in a team of three with scores
\* [100, 0, 0] each zero-score car gets the clamp floor 1e-6.
C5_WeightRule ==
    gpc # "input" =>
        /\ C5_GeneralRule
        /\ \A i \in C5_ZeroOfHundredTeam :
             FracEq(qualifying_agg[i].weight, <<1, EpsDen>>)

\* C5 witness: qualifying has run on a team of three with scores [100, 0, 0].
C5_Witness == gpc # "input" /\ C5_ZeroOfHundredTeam # {}

\* C5 as originally stated: ... in a team of three with scores [100, 0, 0]
\* each zero-score car gets weight 1/3.
C5_Original ==
    gpc # "input" =>
        /\ C5_GeneralRule
        /\ \A i \in C5_ZeroOfHundredTeam : FracEq(qualifying_agg[i].weight, <<1, 3>>)

\* The place of row i in a round-robin over the pole teams, where n[t] cars
\* of team t are placed: rows of earlier ranks, then the teams ahead in pole
\* order that still have a car at this rank.
C6_RoundRobinPlace(g, pole_teams, n, i) ==
    LET t == g[i].team
        rank == Cardinality({j \in 1..(i - 1) : g[j].team = t})
        tpos == CHOOSE k \in DOMAIN pole_teams : pole_teams[k] = t
    IN  1 + SumSeq([k \in DOMAIN pole_teams |-> Min(n[pole_teams[k]], rank)])
          + Cardinality({k \in 1..(tpos - 1) : n[pole_teams[k]] > rank})

\* C6: in a cold start every participating team places exactly
\* min(cars_per_team, roster size) distinct cars of its roster, and the rows
\* are interleaved round-robin by rank with the teams in pole order.
C6_ColdStartRoundRobin ==
    (gpc = "grid" /\ qualifiers = <<>>) =>
        LET pole_teams == PoleTeams(teams, pole_position)
            n == [t \in Range(pole_teams) |-> Min(cars_per_team, RosterSize(t))]
        IN  /\ \A i \in DOMAIN grid : grid[i].team \in Range(pole_teams)
            /\ \A t \in Range(pole_teams) :
                 /\ GridCount(grid, t) = n[t]
                 /\ Cardinality({grid[i].carNumber : i \in {j \in DOMAIN grid :
                                     grid[j].team = t}}) = n[t]
            /\ \A i \in DOMAIN grid :
                 /\ \E d \in DOMAIN Drivers :
                      /\ Drivers[d].car = grid[i].carNumber
                      /\ Drivers[d].team = grid[i].team
                 /\ C6_RoundRobinPlace(grid, pole_teams, n, i) = i

\* C6 witness: the cold-start grid of two teams with three rostered cars
\* each: six rows, alternating B, A, B, A, B, A in pole order.
C6_Witness ==
    /\ gpc = "grid" /\ qualifiers = <<>> /\ teams = <<"A", "B">>
    /\ Col(grid, "team") = <<"B", "A", "B", "A", "B", "A">>

\* C7: each carNumber appears in at most one row of the grid.
C7_CarNumberUnique ==
    gpc = "grid" =>
        \A i, j \in DOMAIN grid : i # j => grid[i].carNumber # grid[j].carNumber

(***************************************************************************)
(* Claims about race scoring (SpecScore) and team results (SpecTeam)       *)
(***************************************************************************)
\* The finish input respects the caller's contract: every entry names a car
\* of the grid.
ValidFinishInput == \A i \in DOMAIN results : InGrid(score_grid, results[i].carNumber)

\* C3: for every finish entry that is not DNQ, build_race_results returns a
\* scored row whose points are the configured points of the finish position
\* (0 if absent) plus turnsLed, whose playoffPoints are the configured
\* playoff points, and whose qualifyingPoints are the configured qualifying
\* points plus 4 exactly when the car started from position 1.
C3_FinisherScored ==
    (spc = "scored" /\ ValidFinishInput) =>
        /\ scored.error = "none"
        /\ Len(scored.rows) = Len(results)
        /\ \A i \in DOMAIN results :
             results[i].finish # DNQ =>
                LET key == Str(results[i].finish.n)
                    start == GridRow(score_grid, results[i].carNumber).startingPosition
                IN  /\ scored.rows[i].carNumber = results[i].carNumber
                    /\ scored.rows[i].points =
                          Get(PointsStructure.points, key) + results[i].turnsLed
                    /\ scored.rows[i].playoffPoints =
                          Get(PointsStructure.playoffPoints, key)
                    /\ scored.rows[i].qualifyingPoints =
                          Get(PointsStructure.qualifyingPoints, key)
                            + (IF start = 1 THEN 4 ELSE 0)

\* No two finishers share a finish position.
DistinctFinishes ==
    \A i, j \in DOMAIN results :
        (i # j /\ results[i].finish # DNQ) => results[i].finish # results[j].finish

\* C8: in every scored race each team has at most one car with
\* relativeFinish = 1, a finisher's relativeFinish is the 1-indexed rank of
\* its finish position among its own team's non-DNQ finish positions, and a
\* DNQ car's relativeFinish is 0.
C8_RelativeFinish ==
    (spc = "scored" /\ ValidFinishInput /\ DistinctFinishes) =>
        /\ scored.error = "none"
        /\ Len(scored.rows) = Len(results)
        /\ \A i \in DOMAIN results :
             LET team_i == GridRow(score_grid, results[i].carNumber).team
                 ahead == {j \in DOMAIN results :
                             /\ results[j].finish # DNQ
                             /\ GridRow(score_grid, results[j].carNumber).team = team_i
                             /\ results[j].finish.n < results[i].finish.n}
             IN  scored.rows[i].relativeFinish =
                    IF results[i].finish = DNQ THEN 0 ELSE Cardinality(ahead) + 1
        /\ \A t \in Range(Col(score_grid, "team")) :
             Cardinality({i \in DOMAIN scored.rows :
                            /\ scored.rows[i].team = t
                            /\ scored.rows[i].relativeFinish = 1}) <= 1

\* Per-team sums of one race and the totalPoints team_race_results reports.
RaceTeamSet == Range(Col(race_df, "team"))
RacePoints(t) == SumSeq(Col(SelectSeq(race_df, LAMBDA r : r.team = t), "points"))
RaceTurnsLed(t) == SumSeq(Col(SelectSeq(race_df, LAMBDA r : r.team = t), "turnsLed"))
ReportedTotal(t) ==
    LET k == CHOOSE k \in DOMAIN team_results.rows : team_results.rows[k].team = t
    IN  team_results.rows[k].totalPoints

\* C4: when some team led a turn, exactly one team (the one with the highest
\* summed turnsLed, the first one on a tie) has totalPoints = its summed
\* points + 1 and every other team has exactly its summed points; when every
\* team's summed turnsLed is 0, no team receives the +1.
C4_TurnsLedBonus ==
    (tpc = "done" /\ team_results.error = "none") =>
        /\ Range(Col(team_results.rows, "team")) = RaceTeamSet
        /\ IF \E t \in RaceTeamSet : RaceTurnsLed(t) > 0
           THEN \E w \in RaceTeamSet :
                  /\ \A t \in RaceTeamSet : RaceTurnsLed(t) <= RaceTurnsLed(w)
                  /\ \A t \in RaceTeamSet :
                       RaceTurnsLed(t) = RaceTurnsLed(w) => TeamIdx(w) <= TeamIdx(t)
                  /\ ReportedTotal(w) = RacePoints(w) + 1
                  /\ \A t \in RaceTeamSet \ {w} : ReportedTotal(t) = RacePoints(t)
           ELSE \A t \in RaceTeamSet : ReportedTotal(t) = RacePoints(t)

(***************************************************************************)
(* Claims about the season standings (SpecStand)                           *)
(***************************************************************************)
Entrants == {EntrantKey(season[i]) : i \in DOMAIN season}
SeasonTeams == {season[i].team : i \in DOMAIN season}

\* The position column is 1..n in row order and the column `f` never
\* increases from one row to the next.
DenseAndOrdered(tbl, n, f) ==
    /\ Len(tbl) = n
    /\ \A k \in DOMAIN tbl : tbl[k].position = k
    /\ \A k \in 1..(Len(tbl) - 1) : tbl[k][f] >= tbl[k + 1][f]

\* C9: in the driver, owner and playoff standings the position column read
\* in row order is exactly 1..N (1..min(N, 24) for the playoff view) and the
\* primary sort key (points, points, playoffPoints) is non-increasing as
\* position increases.
C9_PositionsDenseAndOrdered ==
    stpc = "done" =>
        /\ DenseAndOrdered(drivers_tbl, Cardinality(Entrants), "points")
        /\ DenseAndOrdered(owners_tbl, Cardinality(SeasonTeams), "points")
        /\ DenseAndOrdered(playoffs_tbl, Min(Cardinality(Entrants), PlayoffRows),
                           "playoffPoints")

\* C9 witness: standings of a season with more than 24 entrants whose points
\* differ, the later entrants having scored more than the first ones.
C9_Witness ==
    /\ stpc = "done" /\ Cardinality(Entrants) > PlayoffRows
    /\ Len(playoffs_tbl) = PlayoffRows
    /\ season[1].points < season[Len(season)].points
    /\ drivers_tbl[1].points > drivers_tbl[Len(drivers_tbl)].points

\* The season total of playoff points of an entrant, and the k-th largest
\* total over all entrants (counted with multiplicity), from the season rows.
PlayoffTotal(e) ==
    SumSeq(Col(SelectSeq(season, LAMBDA r : EntrantKey(r) = e), "playoffPoints"))
KthLargestTotal(k) ==
    CHOOSE v \in {PlayoffTotal(e) : e \in Entrants} :
        /\ Cardinality({e \in Entrants : PlayoffTotal(e) > v}) < k
        /\ Cardinality({e \in Entrants : PlayoffTotal(e) >= v}) >= k

\* C10: with fewer than 13 ranked entrants every margin is the empty string;
\* with 13 or more, a row at position 1..12 has margin = its playoffPoints
\* minus the 13th row's, which is >= 0, and a row at position 13 or later has
\* margin = its playoffPoints minus the 12th row's, which is <= 0, the 12th
\* and 13th rows being those of the full ranking.
C10_PlayoffMargins ==
    stpc = "done" =>
        IF Cardinality(Entrants) < FirstOutRow
        THEN \A k \in DOMAIN playoffs_tbl : playoffs_tbl[k].margin = ""
        ELSE LET pts_12 == KthLargestTotal(CutlineRow)
                 pts_13 == KthLargestTotal(FirstOutRow)
             IN  \A k \in DOMAIN playoffs_tbl :
                    LET row == playoffs_tbl[k]
                    IN  IF row.position <= CutlineRow
                        THEN /\ row.playoffPoints - pts_13 >= 0
                             /\ row.margin = SignedStr(row.playoffPoints - pts_13)
                        ELSE /\ row.playoffPoints - pts_12 <= 0
                             /\ row.margin = SignedStr(row.playoffPoints - pts_12)

\* C10 witness: a playoff table cut to 24 rows in which the 12th and 13th
\* rows differ, with a positive margin above and a negative one below.
C10_Witness ==
    /\ stpc = "done" /\ Cardinality(Entrants) > PlayoffRows
    /\ playoffs_tbl[CutlineRow].playoffPoints > playoffs_tbl[FirstOutRow].playoffPoints
    /\ playoffs_tbl[1].margin = "+4"
    /\ playoffs_tbl[PlayoffRows].margin = "-5"

\* The season rows of one entrant, of one team, and the number of rows whose
\* finish is a numeric position <= k (a DNQ row is never one).
EntrantRows(e) == SelectSeq(season, LAMBDA r : EntrantKey(r) = e)
SeasonTeamRows(t) == SelectSeq(season, LAMBDA r : r.team = t)
FinishedWithin(rows, k) ==
    Cardinality({i \in DOMAIN rows :
                   ~ToNumeric(rows[i].finish).nan /\ ToNumeric(rows[i].finish).n <= k})

\* wins, top5s and top10s of a standings row against the group's season rows.
CountsMatch(row, rows) ==
    /\ row.wins = FinishedWithin(rows, 1)
    /\ row.top5s = FinishedWithin(rows, 5)
    /\ row.top10s = FinishedWithin(rows, 10)

\* C11: in the driver, owner and playoff standings, for every group wins is
\* the number of the group's rows whose finish is position 1, top5s the
\* number whose finish is a numeric position <= 5 and top10s the number whose
\* finish is a numeric position <= 10; DNQ rows count toward none of them.
C11_WinsAndTopCounts ==
    stpc = "done" =>
        /\ \A k \in DOMAIN drivers_tbl :
             CountsMatch(drivers_tbl[k], EntrantRows(EntrantKey(drivers_tbl[k])))
        /\ \A k \in DOMAIN owners_tbl :
             CountsMatch(owners_tbl[k], SeasonTeamRows(owners_tbl[k].team))
        /\ \A k \in DOMAIN playoffs_tbl :
             CountsMatch(playoffs_tbl[k], EntrantRows(EntrantKey(playoffs_tbl[k])))

(***************************************************************************)
(* Claims about the qualifying order and the warm-start grid (SpecGrid)    *)
(***************************************************************************)
\* The distinct entrants (car, driver, team) of a team in the season history
\* and the rows qualifying_sequence returned for the team.
HistoryEntrants(t) ==
    {EntrantKey(all_race_data[i]) :
        i \in {j \in DOMAIN all_race_data : all_race_data[j].team = t}}
TeamQualifiers(t) == SelectSeq(qualifiers, LAMBDA q : q.team = t)

\* C13: for a non-empty season history qualifying_sequence returns for each
\* team exactly k = min(4, number of the team's distinct entrants) cars whose
\* teamPosition values are exactly 1..k with no repeats, whatever the random
\* draws are (equal keys included); for an empty history it returns no rows.
C13_TeamPositionsDistinct ==
    gpc # "input" =>
        IF all_race_data = <<>> THEN qualifiers = <<>>
        ELSE /\ \A i \in DOMAIN qualifiers :
                  HistoryEntrants(qualifiers[i].team) # {}
             /\ \A t \in Range(Col(all_race_data, "team")) :
                  LET mine == TeamQualifiers(t)
                      k == Min(TopRank, Cardinality(HistoryEntrants(t)))
                  IN  /\ Len(mine) = k
                      /\ Range(Col(mine, "teamPosition")) = 1..k
                      /\ \A a, b \in DOMAIN mine :
                           a # b => mine[a].teamPosition # mine[b].teamPosition

\* The grid rows of a team in grid order, whether a grid row is one of the
\* team's qualifiers, and the teamPosition it qualified with.
TeamGridRows(t) == SelectSeq(grid, LAMBDA r : r.team = t)
IsQualifier(r) == \E i \in DOMAIN qualifiers : EntrantKey(qualifiers[i]) = EntrantKey(r)
QualifiedAt(r) ==
    qualifiers[CHOOSE i \in DOMAIN qualifiers :
                  EntrantKey(qualifiers[i]) = EntrantKey(r)].teamPosition

\* C12: in a warm start the grid is built rank by rank, 1..cars_per_team,
\* with the teams in pole order inside a rank; the car a team places at a
\* rank is its qualifier holding that teamPosition when there is one, so a
\* team's qualifiers stand in ascending teamPosition order ahead of its cars
\* that did not qualify, and no team places more than cars_per_team cars.
C12_WarmStartByTeamPosition ==
    (gpc = "grid" /\ qualifiers # <<>>) =>
        LET pole_teams == PoleTeams(teams, pole_position)
            n == [t \in Range(pole_teams) |-> GridCount(grid, t)]
        IN  /\ \A i \in DOMAIN grid :
                 /\ grid[i].team \in Range(pole_teams)
                 /\ C6_RoundRobinPlace(grid, pole_teams, n, i) = i
            /\ \A t \in Range(pole_teams) :
                 LET mine == TeamGridRows(t)
                 IN  /\ Len(mine) <= cars_per_team
                     /\ \A rank \in 1..cars_per_team :
                          (\E q \in Range(TeamQualifiers(t)) : q.teamPosition = rank)
                             => /\ rank <= Len(mine)
                                /\ IsQualifier(mine[rank])
                                /\ QualifiedAt(mine[rank]) = rank
                     /\ \A a \in DOMAIN mine :
                          IsQualifier(mine[a]) => QualifiedAt(mine[a]) = a
                     /\ \A a, b \in DOMAIN mine :
                          (a < b /\ IsQualifier(mine[b])) =>
                             /\ IsQualifier(mine[a])
                             /\ QualifiedAt(mine[a]) <= QualifiedAt(mine[b])

(***************************************************************************)
(* Claims about invalid finish input (SpecScore)                           *)
(***************************************************************************)
\* The scored row of entry i gets 0 from every points table that has no key
\* for the entry's finish (the position as a string, or "DNQ").
MissingScoresZero(i) ==
    LET key == IF results[i].finish = DNQ THEN "DNQ" ELSE Str(results[i].finish.n)
        row == scored.rows[i]
        start == GridRow(score_grid, results[i].carNumber).startingPosition
        bonus == IF results[i].finish # DNQ /\ start = 1 THEN 4 ELSE 0
    IN  /\ key \notin DOMAIN PointsStructure.points
            => row.points = (IF results[i].finish = DNQ THEN 0 ELSE results[i].turnsLed)
        /\ key \notin DOMAIN PointsStructure.playoffPoints
            => row.playoffPoints = 0
        /\ key \notin DOMAIN PointsStructure.qualifyingPoints
            => row.qualifyingPoints = bonus

\* C14: when a finish entry (DNQ or finisher) names a car that is not in the
\* grid, build_race_results fails with KeyError and returns no scored rows;
\* a finish position missing from a points table is not an error and scores
\* 0.
C14_StrayCarKeyError ==
    spc = "scored" =>
        IF ValidFinishInput
        THEN /\ scored.error = "none"
             /\ Len(scored.rows) = Len(results)
             /\ \A i \in DOMAIN results : MissingScoresZero(i)
        ELSE /\ scored.error = "KeyError"
             /\ scored.rows = <<>>

(***************************************************************************)
(* Claims about the finish-order collector (SpecCollect)                   *)
(***************************************************************************)
\* What the returned list looks like: one entry per grid car, only grid
\* cars, no car twice, finishes 1..N in list order, turns led not negative.
CollectedOncePerCar ==
    /\ Len(all_results) = Len(car_numbers)
    /\ \A i \in DOMAIN car_numbers :
         Cardinality({k \in DOMAIN all_results :
                        all_results[k].carNumber = car_numbers[i]}) = 1
    /\ \A k \in DOMAIN all_results :
         /\ all_results[k].carNumber \in Range(car_numbers)
         /\ all_results[k].finish = k
         /\ all_results[k].turnsLed \in Nat
    /\ \A j, k \in DOMAIN all_results :
         j # k => all_results[j].carNumber # all_results[k].carNumber

\* The line just read is one the prompt rejects: at the car prompt a line
\* that is not a number or a car that is unknown or already chosen, at the
\* turns-led prompt a line that is not a number or a negative number.
RejectedLine ==
    /\ inputs' = inputs + 1
    /\ \/ /\ last_input'.prompt = "car"
          /\ last_input'.kind = "text" \/ (last_input'.kind = "int" /\ last_input'.n \notin available)
       \/ /\ last_input'.prompt = "turns"
          /\ last_input'.kind = "text" \/ (last_input'.kind = "int" /\ last_input'.n < 0)

\* C16: whenever _collect_finishers_interactive returns, the list has exactly
\* one entry per grid car, no car outside the grid and no car twice, the
\* finish values in list order are 1..N and every turnsLed is a non-negative
\* integer; a rejected input changes neither the list nor the set of cars
\* still available.
C16_CollectorResult ==
    /\ [](cpc = "returned" => CollectedOncePerCar)
    /\ [][RejectedLine => UNCHANGED <<all_results, available>>]_vars

\* C16 witness: the collector has returned two entries after reading more
\* than the four lines two entries need, so some line was rejected on the
\* way, and the winner led ten turns.
C16_Witness ==
    /\ cpc = "returned" /\ Len(all_results) = 2 /\ inputs > 4
    /\ all_results[1].turnsLed = 10

(***************************************************************************)
(* Claims about the race workflow and the race files (SpecRace)            *)
(***************************************************************************)
\* The race numbers of the stored files.
StoredNums(files) == {files[i].raceNum : i \in DOMAIN files}

\* The step appends one new race file, numbered 1 for an empty season and
\* otherwise one more than the largest stored race number.
AppendsOneRace ==
    /\ Len(stored') = Len(stored) + 1
    /\ \E rec \in Range(stored') :
         /\ rec \notin Range(stored)
         /\ Range(stored') = Range(stored) \cup {rec}
         /\ rec.raceNum = IF stored = <<>> THEN 1
                          ELSE (CHOOSE m \in StoredNums(stored) :
                                   \A x \in StoredNums(stored) : x <= m) + 1

\* C15: every invocation of run_race_and_save that produced a non-empty grid
\* appends exactly one new race record, whose raceNum is 1 for an empty
\* season and otherwise the largest stored raceNum plus 1; no step overwrites
\* or removes a stored race record; an invocation whose grid is empty stores
\* nothing.
C15_AppendOneRace ==
    [][ /\ (rpc = "collect" /\ rpc' # "collect") => AppendsOneRace
        /\ Range(stored) \subseteq Range(stored')
        /\ (rpc = "menu" /\ rpc' = "rebuild") => stored' = stored ]_vars

====
